---- MODULE Spec2Model ----
(***************************************************************************)
(* Model of the image edit handler of app.py: POST /upload validates a     *)
(* multipart request, stores the upload under a uuid-prefixed name, calls  *)
(* the generative model, extracts the first inline-data part of the first  *)
(* candidate, writes it as a PNG and answers with two URLs.                *)
(*                                                                         *)
(* Python strings are sequences of one-character strings.  An optional     *)
(* value is a sequence of length at most one: None is << >> and a value v  *)
(* that is present is << v >>.                                             *)
(***************************************************************************)
EXTENDS Integers, Sequences, FiniteSets, TLC

----------------------------------------------------------------------------
(* Bounds of the model *)

\* number of hex digits of a modelled uuid (uuid4().hex has 32)
UuidLen == 1
\* largest number of parts in a candidate of a modelled response
MaxParts == 2
\* number of requests of one behaviour, each served by a worker of its own
NumWorkers == 2

----------------------------------------------------------------------------
(* Optional values and strings *)

None == << >>

Some(v) == << v >>

\* str.lower() on the characters the model uses
LowerChar(c) ==
    CASE c = "P" -> "p"
      [] c = "N" -> "n"
      [] c = "G" -> "g"
      [] OTHER -> c

Lower(s) == [i \in 1..Len(s) |-> LowerChar(s[i])]

\* index of the last "." of s, 0 when there is none
LastDot(s) ==
    IF \E i \in 1..Len(s) : s[i] = "."
    THEN CHOOSE i \in 1..Len(s) : s[i] = "." /\ \A j \in (i+1)..Len(s) : s[j] # "."
    ELSE 0

\* s.rsplit('.', 1): the list of the pieces around the last "."
RSplitDot(s) ==
    IF LastDot(s) = 0 THEN << s >>
    ELSE << SubSeq(s, 1, LastDot(s) - 1), SubSeq(s, LastDot(s) + 1, Len(s)) >>

----------------------------------------------------------------------------
(* Configuration *)

UPLOAD_FOLDER == << "u", "p", "l", "o", "a", "d", "s" >>

ALLOWED_EXTENSIONS ==
    { << "p", "n", "g" >>, << "j", "p", "g" >>,
      << "j", "p", "e", "g" >>, << "g", "i", "f" >> }

allowed_file_Any(filename) == TRUE

allowed_file(filename) ==
    /\ \E i \in 1..Len(filename) : filename[i] = "."
    /\ Lower(RSplitDot(filename)[2]) \in ALLOWED_EXTENSIONS

----------------------------------------------------------------------------
(* werkzeug.utils.secure_filename *)

SafeChars ==
    { "a", "b", "e", "f", "g", "i", "j", "n", "p", "t", "x",
      "P", "N", "G", "0", "1", "_", ".", "-" }

\* filename.replace(os.sep, " ")
ReplaceSep(s) == [i \in 1..Len(s) |-> IF s[i] = "/" THEN " " ELSE s[i]]

RECURSIVE SplitWs(_, _)
\* str.split() on whitespace: the non-empty words of s; cur is the word
\* being read
SplitWs(s, cur) ==
    IF s = << >> THEN (IF cur = << >> THEN << >> ELSE << cur >>)
    ELSE IF Head(s) = " "
         THEN (IF cur = << >> THEN SplitWs(Tail(s), << >>)
               ELSE << cur >> \o SplitWs(Tail(s), << >>))
         ELSE SplitWs(Tail(s), Append(cur, Head(s)))

RECURSIVE JoinWith(_, _)
\* sep.join(words)
JoinWith(sep, words) ==
    IF words = << >> THEN << >>
    ELSE IF Len(words) = 1 THEN Head(words)
    ELSE Head(words) \o << sep >> \o JoinWith(sep, Tail(words))

\* _filename_ascii_strip_re.sub("", s): drop what is not [A-Za-z0-9_.-]
AsciiStrip(s) == SelectSeq(s, LAMBDA c : c \in SafeChars)

RECURSIVE LStrip(_)
LStrip(s) ==
    IF s # << >> /\ Head(s) \in { ".", "_" } THEN LStrip(Tail(s)) ELSE s

RECURSIVE RStrip(_)
RStrip(s) ==
    IF s # << >> /\ s[Len(s)] \in { ".", "_" }
    THEN RStrip(SubSeq(s, 1, Len(s) - 1)) ELSE s

\* s.strip("._")
StripDotUnderscore(s) == RStrip(LStrip(s))

secure_filename(filename) ==
    StripDotUnderscore(AsciiStrip(JoinWith("_", SplitWs(ReplaceSep(filename), << >>))))

----------------------------------------------------------------------------
(* Requests *)

\* werkzeug FileStorage: the client's filename and the uploaded bytes, which
\* PIL can identify as an image ("image") or not ("junk")
FileStorage(filename, blob) == [filename |-> filename, blob |-> blob]

\* request.files['file'] (None: no such part) and request.form['instruction']
\* (None: no such field)
Request(file, instruction) == [file |-> file, instruction |-> instruction]

FilenamesAll ==
    { << >>,
      << "a", ".", "p", "n", "g" >>,
      << "a", ".", "P", "N", "G" >>,
      << "a", ".", "j", "p", "g" >>,
      << "/", "a", ".", "p", "n", "g" >>,
      << "a", " ", "b", ".", "g", "i", "f" >>,
      << "a", ".", "b", ".", "j", "p", "e", "g" >>,
      << ".", "p", "n", "g" >>,
      << "a", ".", "t", "x", "t" >>,
      << "p", "n", "g" >>,
      << "a", ".", "p", "n", "g", "/" >> }

FilenamesConcurrent ==
    { << "a", ".", "p", "n", "g" >>,
      << "a", ".", "t", "x", "t" >> }

InstructionsAll == { None, Some(<< >>), Some(<< " " >>), Some(<< "x" >>), Some(<< " ", "x" >>) }

InstructionsConcurrent == { Some(<< "x" >>) }

RequestsOver(filenames, blobs, instructions) ==
    { Request(f, i) :
        f \in { None } \cup { Some(FileStorage(n, b)) : n \in filenames, b \in blobs },
        i \in instructions }

RequestsAll == RequestsOver(FilenamesAll, { "image", "junk" }, InstructionsAll)

RequestsConcurrent == RequestsOver(FilenamesConcurrent, { "image", "junk" }, InstructionsConcurrent)

\* request.form.get('instruction', '')
FormInstruction(r) == IF r.instruction = None THEN << >> ELSE r.instruction[1]

----------------------------------------------------------------------------
(* HTTP responses *)

ERR_NO_FILE_PART == << "No file part" >>

ERR_NO_SELECTED_FILE == << "No selected file" >>

ERR_INSTRUCTION_REQUIRED == << "Instruction is required" >>

ERR_TYPE_NOT_ALLOWED == << "File type not allowed or an unexpected error occurred." >>

ERR_FAILED_PREFIX == << "Failed to process image with AI model. Details: " >>

ERR_NO_IMAGE_PREFIX == << "The model did not return an image. Response: " >>

\* jsonify({'error': msg}), status
JsonError(status, msg) ==
    [kind |-> "json_error", status |-> status, error |-> msg,
     original_url |-> << >>, processed_url |-> << >>, instruction |-> << >>]

\* jsonify({'original_url': ..., 'processed_url': ..., 'instruction': ...})
JsonSuccess(original_url, processed_url, instruction) ==
    [kind |-> "json_ok", status |-> 200, error |-> << >>,
     original_url |-> original_url, processed_url |-> processed_url,
     instruction |-> instruction]

\* an exception that leaves upload_file: the framework answers 500 itself,
\* with no JSON body
UnhandledFault(detail) ==
    [kind |-> "fault", status |-> 500, error |-> detail,
     original_url |-> << >>, processed_url |-> << >>, instruction |-> << >>]

\* the checks of lines 51-61 and 129: the error of the first check that
\* fails, None when the request passes
ValidationError_InstructionFirst(r) ==
    IF r.file = None THEN Some(ERR_NO_FILE_PART)
    ELSE IF FormInstruction(r) = << >> THEN Some(ERR_INSTRUCTION_REQUIRED)
    ELSE IF r.file[1].filename = << >> THEN Some(ERR_NO_SELECTED_FILE)
    ELSE IF ~ allowed_file(r.file[1].filename) THEN Some(ERR_TYPE_NOT_ALLOWED)
    ELSE None

ValidationError(r) ==
    IF r.file = None THEN Some(ERR_NO_FILE_PART)
    ELSE IF r.file[1].filename = << >> THEN Some(ERR_NO_SELECTED_FILE)
    ELSE IF FormInstruction(r) = << >> THEN Some(ERR_INSTRUCTION_REQUIRED)
    ELSE IF ~ allowed_file(r.file[1].filename) THEN Some(ERR_TYPE_NOT_ALLOWED)
    ELSE None

----------------------------------------------------------------------------
(* Stored names *)

HexChars == { "0", "f" }

\* the values uuid.uuid4().hex can take
Uuids == [1..UuidLen -> HexChars]

\* uuid4 draws 122 random bits; a repeated value is excluded here, so a
\* call returns any value not returned before
Uuid4Choices(used) == Uuids \ used

\* f"{unique_id}_{original_filename}"
StoredName_NoId(unique_id, original_filename) == original_filename

StoredName(unique_id, original_filename) ==
    unique_id \o << "_" >> \o original_filename

\* os.path.join(app.config['UPLOAD_FOLDER'], filename)
PathJoin(folder, filename) == folder \o << "/" >> \o filename

\* f"processed_{filename.rsplit('.', 1)[0]}.png"
ProcessedName_NoPrefix(filename) ==
    RSplitDot(filename)[1] \o << ".", "p", "n", "g" >>

ProcessedName(filename) ==
    << "p", "r", "o", "c", "e", "s", "s", "e", "d", "_" >>
        \o RSplitDot(filename)[1] \o << ".", "p", "n", "g" >>

\* f'/uploads/{name}'
UploadUrl(name) == << "/", "u", "p", "l", "o", "a", "d", "s", "/" >> \o name

----------------------------------------------------------------------------
(* The upload directory: path -> content and number of times written *)

Exists(dir, path) == path \in DOMAIN dir

WriteFile(dir, path, content) ==
    [q \in (DOMAIN dir) \cup { path } |->
        IF q = path
        THEN [content |-> content,
              writes |-> IF Exists(dir, path) THEN dir[path].writes + 1 ELSE 1]
        ELSE dir[q]]

\* file.save(filepath): ok, or an OSError before the file is created
\* ("failed"), or an OSError after part of it was written ("partial")
FileSave(dir, path, blob, outcome) ==
    CASE outcome = "ok" -> WriteFile(dir, path, << "upload", blob >>)
      [] outcome = "partial" -> WriteFile(dir, path, << "upload", "partial" >>)
      [] OTHER -> dir

\* processed_image.save(processed_filepath, 'PNG'): on failure PIL removes the
\* file if the call created it, and leaves a truncated file otherwise
ImageSavePng_Skip(dir, path, image, ok) == dir

ImageSavePng(dir, path, image, ok) ==
    IF ok THEN WriteFile(dir, path, << "PNG", image >>)
    ELSE IF Exists(dir, path) THEN WriteFile(dir, path, << "PNG", "partial" >>)
    ELSE dir

----------------------------------------------------------------------------
(* The generative model's response *)

\* a part of a candidate's content: inline_data is None or a blob whose
\* data is a byte string, text is None or a string
Part(inline_data, text) == [inline_data |-> inline_data, text |-> text]

TextPart(t) == Part(None, Some(t))

InlinePart(data) == Part(Some(data), None)

\* byte strings: two images PIL can decode, bytes that are no image, b''
ImageBytes == { << "imgA" >>, << "imgB" >> }

\* the last part is a text part whose inline_data reads as an empty blob
\* instead of None
PartsAll ==
    { TextPart(<< "t" >>), TextPart(<< "u" >>),
      InlinePart(<< "imgA" >>), InlinePart(<< "imgB" >>),
      InlinePart(<< "junk" >>), InlinePart(<< >>),
      Part(Some(<< >>), Some(<< "t" >>)) }

PartsConcurrent == { TextPart(<< "t" >>), InlinePart(<< "imgA" >>) }

\* the sequences of at most n parts
RECURSIVE PartSeqs(_, _)
PartSeqs(parts, n) ==
    IF n = 0 THEN { << >> }
    ELSE PartSeqs(parts, n - 1)
         \cup { Append(c, q) : c \in { d \in PartSeqs(parts, n - 1) : Len(d) = n - 1 },
                               q \in parts }

\* what model.generate_content() produces: an exception (timeout included),
\* or a response with no candidate, one candidate, or two
GenerateOutcome(raised, candidates) == [raised |-> raised, candidates |-> candidates]

ResponsesOver(parts, n) ==
    { GenerateOutcome(TRUE, << >>), GenerateOutcome(FALSE, << >>) }
    \cup { GenerateOutcome(FALSE, << c >>) : c \in PartSeqs(parts, n) }

ResponsesAll ==
    ResponsesOver(PartsAll, MaxParts)
    \cup { GenerateOutcome(FALSE, << c, << InlinePart(<< "imgB" >>) >> >>) :
             c \in PartSeqs(PartsAll, 1) }

ResponsesConcurrent ==
    { GenerateOutcome(TRUE, << >>), GenerateOutcome(FALSE, << >>) }
    \cup { GenerateOutcome(FALSE, << << q >> >>) : q \in PartsConcurrent }

RECURSIVE FirstInlineData_Last(_)
FirstInlineData_Last(parts) ==
    IF parts = << >> THEN None
    ELSE IF parts[Len(parts)].inline_data # None
         THEN Some(parts[Len(parts)].inline_data[1])
         ELSE FirstInlineData_Last(SubSeq(parts, 1, Len(parts) - 1))

RECURSIVE FirstInlineData(_)
\* lines 90-94: processed_image_data after the loop over the parts
FirstInlineData(parts) ==
    IF parts = << >> THEN None
    ELSE IF Head(parts).inline_data # None THEN Some(Head(parts).inline_data[1])
         ELSE FirstInlineData(Tail(parts))

\* `not processed_image_data`: None and b'' are both false
NotData(d) == d = None \/ d[1] = << >>

RECURSIVE TextResponse_Reversed(_)
TextResponse_Reversed(parts) ==
    IF parts = << >> THEN << >>
    ELSE TextResponse_Reversed(Tail(parts))
         \o (IF Head(parts).text # None THEN Head(parts).text[1] ELSE << >>)

RECURSIVE TextResponse(_)
\* lines 98-101: text_response after the loop over the parts
TextResponse(parts) ==
    IF parts = << >> THEN << >>
    ELSE (IF Head(parts).text # None THEN Head(parts).text[1] ELSE << >>)
         \o TextResponse(Tail(parts))

\* line 104: the message of the ValueError
NoImageMessage(text_response) ==
    ERR_NO_IMAGE_PREFIX \o (IF text_response = << >> THEN << "Empty" >> ELSE text_response)

\* line 121: the body of the 500 answer for the exception message e
FailedResponse(e) == JsonError(500, ERR_FAILED_PREFIX \o e)

----------------------------------------------------------------------------
(* State *)

VARIABLES
    pc,       \* pc[w]: the statement of upload_file worker w is at
    req,      \* req[w]: the request of worker w, None before it arrives
    h,        \* h[w]: the local variables of worker w's call of upload_file
    fs,       \* the upload directory
    issued    \* the values uuid4 has returned

vars == << pc, req, h, fs, issued >>

Workers == 1..NumWorkers

\* the locals of upload_file before its first statement; invoked, written,
\* stages and responses record what the call has done so far
InitLocals ==
    [instruction |-> << >>, filename |-> None, filepath |-> None,
     response |-> None, processed_image_data |-> None, text_response |-> << >>,
     processed_image |-> None, processed_filename |-> None,
     processed_filepath |-> None, resp |-> None,
     invoked |-> 0, written |-> << >>, stages |-> << >>, responses |-> 0]

Init ==
    /\ pc = [w \in Workers |-> "idle"]
    /\ req = [w \in Workers |-> None]
    /\ h = [w \in Workers |-> InitLocals]
    /\ fs = << >>
    /\ issued = {}

\* the statement that follows a stage of upload_file: the next one in the
\* text when the stage succeeded, the end of the call when it returned an
\* error or raised
Goto_RetryInvoke(stage, ok) ==
    IF ~ ok THEN (IF stage = "invoke" THEN "invoke" ELSE "done")
    ELSE CASE stage = "validate" -> "store"
           [] stage = "store" -> "open"
           [] stage = "open" -> "invoke"
           [] stage = "invoke" -> "parse"
           [] stage = "parse" -> "decode"
           [] stage = "decode" -> "persist"
           [] stage = "persist" -> "respond"
           [] OTHER -> "done"

Goto(stage, ok) ==
    IF ~ ok THEN "done"
    ELSE CASE stage = "validate" -> "store"
           [] stage = "store" -> "open"
           [] stage = "open" -> "invoke"
           [] stage = "invoke" -> "parse"
           [] stage = "parse" -> "decode"
           [] stage = "decode" -> "persist"
           [] stage = "persist" -> "respond"
           [] OTHER -> "done"

\* the locals after a stage ran
Ran(l, stage) == [l EXCEPT !.stages = Append(@, stage)]

\* the locals after an answer left the call
Answered(l, r) == [l EXCEPT !.resp = Some(r), !.responses = @ + 1]

----------------------------------------------------------------------------
(* upload_file, statement by statement *)

\* lines 49-61, 129: a request arrives and is validated
Upload(w, requests) ==
    /\ pc[w] = "idle"
    /\ \E r \in requests :
         LET e == ValidationError(r)
             l == Ran([InitLocals EXCEPT !.instruction = FormInstruction(r)], "validate")
         IN /\ req' = [req EXCEPT ![w] = Some(r)]
            /\ h' = [h EXCEPT ![w] =
                        IF e = None THEN l ELSE Answered(l, JsonError(400, e[1]))]
            /\ pc' = [pc EXCEPT ![w] = Goto("validate", e = None)]
    /\ UNCHANGED << fs, issued >>

\* lines 63-67: the upload is stored; file.save is outside the try block, so
\* its exception leaves the handler
Store(w) ==
    /\ pc[w] = "store"
    /\ \E unique_id \in Uuid4Choices(issued), outcome \in { "ok", "partial", "failed" } :
         LET file == req[w][1].file[1]
             original_filename == secure_filename(file.filename)
             filename == StoredName(unique_id, original_filename)
             filepath == PathJoin(UPLOAD_FOLDER, filename)
             l0 == Ran([h[w] EXCEPT !.filename = Some(filename),
                                    !.filepath = Some(filepath)], "store")
             l1 == IF outcome = "failed" THEN l0
                   ELSE [l0 EXCEPT !.written = Append(@, filepath)]
         IN /\ issued' = issued \cup { unique_id }
            /\ fs' = FileSave(fs, filepath, file.blob, outcome)
            /\ h' = [h EXCEPT ![w] =
                        IF outcome = "ok" THEN l1
                        ELSE Answered(l1, UnhandledFault(<< "OSError" >>))]
            /\ pc' = [pc EXCEPT ![w] = Goto("store", outcome = "ok")]
    /\ UNCHANGED req

\* line 71: Image.open(filepath) identifies the stored file or raises
OpenImage(w) ==
    /\ pc[w] = "open"
    /\ LET path == h[w].filepath[1]
           ok == Exists(fs, path) /\ fs[path].content = << "upload", "image" >>
           l == Ran(h[w], "open")
       IN /\ h' = [h EXCEPT ![w] =
                      IF ok THEN l
                      ELSE Answered(l, FailedResponse(<< "cannot identify image file" >>))]
          /\ pc' = [pc EXCEPT ![w] = Goto("open", ok)]
    /\ UNCHANGED << req, fs, issued >>

\* lines 75-86: the call of the model, which answers, raises or times out
Invoke(w, responses) ==
    /\ pc[w] = "invoke"
    /\ \E r \in responses :
         LET l == Ran([h[w] EXCEPT !.response = Some(r), !.invoked = @ + 1], "invoke")
         IN /\ h' = [h EXCEPT ![w] =
                        IF ~ r.raised THEN l
                        ELSE Answered(l, FailedResponse(<< "generate_content raised" >>))]
            /\ pc' = [pc EXCEPT ![w] = Goto("invoke", ~ r.raised)]
    /\ UNCHANGED << req, fs, issued >>

\* lines 90-104: the first candidate's parts are scanned for inline data
Parse(w) ==
    /\ pc[w] = "parse"
    /\ LET candidates == h[w].response[1].candidates
           parts == candidates[1]
           data == FirstInlineData(parts)
           text == TextResponse(parts)
           l == Ran(h[w], "parse")
       IN IF candidates = << >>
          THEN /\ h' = [h EXCEPT ![w] =
                           Answered(l, FailedResponse(<< "list index out of range" >>))]
               /\ pc' = [pc EXCEPT ![w] = Goto("parse", FALSE)]
          ELSE IF NotData(data)
          THEN /\ h' = [h EXCEPT ![w] =
                           Answered([l EXCEPT !.processed_image_data = data,
                                              !.text_response = text],
                                    FailedResponse(NoImageMessage(text)))]
               /\ pc' = [pc EXCEPT ![w] = Goto("parse", FALSE)]
          ELSE /\ h' = [h EXCEPT ![w] = [l EXCEPT !.processed_image_data = data]]
               /\ pc' = [pc EXCEPT ![w] = Goto("parse", TRUE)]
    /\ UNCHANGED << req, fs, issued >>

\* line 107: Image.open(BytesIO(processed_image_data)) decodes or raises
Decode(w) ==
    /\ pc[w] = "decode"
    /\ LET data == h[w].processed_image_data[1]
           ok == data \in ImageBytes
           l == Ran(h[w], "decode")
       IN /\ h' = [h EXCEPT ![w] =
                      IF ok THEN [l EXCEPT !.processed_image = Some(data[1])]
                      ELSE Answered(l, FailedResponse(<< "cannot identify image file" >>))]
          /\ pc' = [pc EXCEPT ![w] = Goto("decode", ok)]
    /\ UNCHANGED << req, fs, issued >>

\* lines 111-115: the decoded image is written as a PNG, or the write raises
Persist(w) ==
    /\ pc[w] = "persist"
    /\ \E ok \in BOOLEAN :
         LET processed_filename == ProcessedName(h[w].filename[1])
             processed_filepath == PathJoin(UPLOAD_FOLDER, processed_filename)
             dir == ImageSavePng(fs, processed_filepath, h[w].processed_image[1], ok)
             l0 == Ran([h[w] EXCEPT !.processed_filename = Some(processed_filename),
                                    !.processed_filepath = Some(processed_filepath)],
                       "persist")
             l1 == IF dir = fs THEN l0
                   ELSE [l0 EXCEPT !.written = Append(@, processed_filepath)]
         IN /\ fs' = dir
            /\ h' = [h EXCEPT ![w] =
                        IF ok THEN l1 ELSE Answered(l1, FailedResponse(<< "OSError" >>))]
            /\ pc' = [pc EXCEPT ![w] = Goto("persist", ok)]
    /\ UNCHANGED << req, issued >>

\* lines 117, 123-127: the success payload
Respond(w) ==
    /\ pc[w] = "respond"
    /\ h' = [h EXCEPT ![w] =
                Answered(Ran(h[w], "respond"),
                         JsonSuccess(UploadUrl(h[w].filename[1]),
                                     UploadUrl(h[w].processed_filename[1]),
                                     h[w].instruction))]
    /\ pc' = [pc EXCEPT ![w] = Goto("respond", TRUE)]
    /\ UNCHANGED << req, fs, issued >>

----------------------------------------------------------------------------
(* Specifications *)

\* one worker per request, the workers running concurrently or one after
\* the other
Next ==
    \E w \in Workers :
        \/ Upload(w, RequestsConcurrent)
        \/ Store(w)
        \/ OpenImage(w)
        \/ Invoke(w, ResponsesConcurrent)
        \/ Parse(w)
        \/ Decode(w)
        \/ Persist(w)
        \/ Respond(w)

Spec == Init /\ [][Next]_vars

\* a single request, over the larger sets of requests and model responses
NextSeq ==
    \/ Upload(1, RequestsAll)
    \/ Store(1)
    \/ OpenImage(1)
    \/ Invoke(1, ResponsesAll)
    \/ Parse(1)
    \/ Decode(1)
    \/ Persist(1)
    \/ Respond(1)

SpecSeq == Init /\ [][NextSeq]_vars

----------------------------------------------------------------------------
(* Vocabulary of the properties *)

\* the request worker w is serving
Serving(w) == pc[w] # "idle"

Answer(w) == h[w].resp[1]

RanStage(w, stage) == \E i \in 1..Len(h[w].stages) : h[w].stages[i] = stage

\* the extension of a filename, stated without rsplit: what follows a "."
\* that no other "." follows, in lower case, is one of the four extensions
HasAllowedExtension(name) ==
    \E i \in 1..Len(name) :
        /\ name[i] = "."
        /\ \A j \in (i + 1)..Len(name) : name[j] # "."
        /\ \E e \in { << "p", "n", "g" >>, << "j", "p", "g" >>,
                      << "j", "p", "e", "g" >>, << "g", "i", "f" >> } :
              /\ Len(e) = Len(name) - i
              /\ \A k \in 1..Len(e) : LowerChar(name[i + k]) = e[k]

NoFilePart(r) == r.file = None

EmptyFilename(r) == r.file # None /\ r.file[1].filename = << >>

NoInstruction(r) == r.instruction = None \/ r.instruction[1] = << >>

BadExtension(r) == r.file # None /\ ~ HasAllowedExtension(r.file[1].filename)

FailsValidation(r) ==
    NoFilePart(r) \/ EmptyFilename(r) \/ NoInstruction(r) \/ BadExtension(r)

AnsweredError(w, status, msg) ==
    /\ pc[w] = "done"
    /\ h[w].resp = Some(JsonError(status, msg))

\* nothing was stored and the model was not called
NoSideEffect(w) ==
    /\ h[w].written = << >>
    /\ h[w].invoked = 0
    /\ h[w].filepath = None
    /\ ~ RanStage(w, "store")

\* s is a contiguous piece of msg
Contains(msg, s) ==
    \E i \in 0..(Len(msg) - Len(s)) : SubSeq(msg, i + 1, i + Len(s)) = s

\* the path a URL of the file-serving route names
UrlToPath(url) == SubSeq(url, 2, Len(url))

----------------------------------------------------------------------------
(* C1 *)

\* C1: a request that fails validation (no file part, empty filename,
\* missing or empty instruction, extension outside png/jpg/jpeg/gif) is
\* answered with a 400 JSON error, and nothing was written to the upload
\* directory and the model was not invoked.
C1_InvalidRequestRejectedWithoutEffect ==
    \A w \in Workers :
        Serving(w) /\ FailsValidation(req[w][1]) =>
            /\ pc[w] = "done"
            /\ Answer(w).status = 400
            /\ Answer(w).kind = "json_error"
            /\ NoSideEffect(w)
            /\ fs = << >>

C1_Witness ==
    \E w \in Workers :
        /\ pc[w] = "done"
        /\ ~ NoFilePart(req[w][1]) /\ ~ EmptyFilename(req[w][1])
        /\ ~ NoInstruction(req[w][1]) /\ BadExtension(req[w][1])
        /\ Answer(w).status = 400
        /\ fs = << >>

----------------------------------------------------------------------------
(* C2 *)

\* C2: the error answered is the one of the first violated rule in the
\* order file part, filename, instruction, extension.
C2_FirstViolatedRuleReported ==
    \A w \in Workers :
        Serving(w) =>
            LET r == req[w][1]
            IN /\ NoFilePart(r) => AnsweredError(w, 400, ERR_NO_FILE_PART)
               /\ EmptyFilename(r) => AnsweredError(w, 400, ERR_NO_SELECTED_FILE)
               /\ (~ NoFilePart(r) /\ ~ EmptyFilename(r) /\ NoInstruction(r))
                     => AnsweredError(w, 400, ERR_INSTRUCTION_REQUIRED)
               /\ (~ NoFilePart(r) /\ ~ EmptyFilename(r) /\ ~ NoInstruction(r)
                     /\ BadExtension(r))
                     => AnsweredError(w, 400, ERR_TYPE_NOT_ALLOWED)

C2_Witness ==
    \E w \in Workers :
        /\ pc[w] = "done"
        /\ EmptyFilename(req[w][1]) /\ NoInstruction(req[w][1]) /\ BadExtension(req[w][1])
        /\ Answer(w).error = ERR_NO_SELECTED_FILE

----------------------------------------------------------------------------
(* C3 *)

PathsOf(w) ==
    { h[w].filepath[i] : i \in 1..Len(h[w].filepath) }
    \cup { h[w].processed_filepath[i] : i \in 1..Len(h[w].processed_filepath) }

SameUploadName(w1, w2) ==
    /\ Serving(w1) /\ Serving(w2)
    /\ req[w1][1].file # None /\ req[w2][1].file # None
    /\ req[w1][1].file[1].filename = req[w2][1].file[1].filename

\* C3: two requests in flight with the same original filename have distinct
\* stored paths and distinct processed paths, and no file of either was
\* written more than once.
C3_ConcurrentSameNameNoCollision ==
    \A w1 \in Workers : \A w2 \in Workers \ { w1 } :
        SameUploadName(w1, w2) =>
            /\ (h[w1].filepath # None /\ h[w2].filepath # None)
                  => h[w1].filepath # h[w2].filepath
            /\ (h[w1].processed_filepath # None /\ h[w2].processed_filepath # None)
                  => h[w1].processed_filepath # h[w2].processed_filepath
            /\ PathsOf(w1) \cap PathsOf(w2) = {}
            /\ \A q \in (PathsOf(w1) \cup PathsOf(w2)) \cap DOMAIN fs : fs[q].writes = 1

C3_Witness ==
    \E w1 \in Workers : \E w2 \in Workers \ { w1 } :
        /\ SameUploadName(w1, w2)
        /\ h[w1].processed_filepath # None /\ h[w2].processed_filepath # None
        /\ h[w1].processed_filepath[1] \in DOMAIN fs
        /\ h[w2].processed_filepath[1] \in DOMAIN fs

----------------------------------------------------------------------------
(* C4 *)

\* the indices of the parts that carry inline data
Carriers(parts) == { i \in 1..Len(parts) : parts[i].inline_data # None }

FirstCarrier(parts) ==
    CHOOSE i \in Carriers(parts) : \A j \in Carriers(parts) : i <= j

----------------------------------------------------------------------------
(* C5 *)

\* the text of parts 1..n, one after the other
RECURSIVE TextUpTo(_, _)
TextUpTo(parts, n) ==
    IF n = 0 THEN << >>
    ELSE TextUpTo(parts, n - 1)
         \o (IF parts[n].text = None THEN << >> ELSE parts[n].text[1])

\* C5: when no part of the first candidate carries inline data, the answer is
\* a 500 JSON error whose message contains the text of the text parts in
\* order, or "Empty" when they have no text, and no processed file is written.
C5_NoInlineDataReportsText ==
    \A w \in Workers :
        (RanStage(w, "parse") /\ h[w].response[1].candidates # << >>
            /\ Carriers(h[w].response[1].candidates[1]) = {}) =>
            LET parts == h[w].response[1].candidates[1]
                text == TextUpTo(parts, Len(parts))
            IN /\ pc[w] = "done"
               /\ Answer(w).kind = "json_error"
               /\ Answer(w).status = 500
               /\ Contains(Answer(w).error, IF text = << >> THEN << "Empty" >> ELSE text)
               /\ h[w].processed_filepath = None
               /\ h[w].written = << h[w].filepath[1] >>
               /\ \A q \in DOMAIN fs : fs[q].content[1] # "PNG"

C5_Witness ==
    \E w \in Workers :
        /\ pc[w] = "done"
        /\ RanStage(w, "parse")
        /\ h[w].response[1].candidates
              = << << TextPart(<< "t" >>), TextPart(<< "u" >>) >> >>
        /\ Answer(w).status = 500
        /\ Contains(Answer(w).error, << "t", "u" >>)

----------------------------------------------------------------------------
(* C6 *)

\* C6: a success payload is answered only when the stored original and the
\* processed PNG its URLs name are both in the upload directory, with the
\* instruction that was submitted; every other finished request is answered
\* with an error.
C6_NoPartialSuccess ==
    \A w \in Workers :
        pc[w] = "done" =>
            \/ /\ Answer(w).kind = "json_ok"
               /\ Answer(w).status = 200
               /\ UrlToPath(Answer(w).original_url) \in DOMAIN fs
               /\ UrlToPath(Answer(w).processed_url) \in DOMAIN fs
               /\ UrlToPath(Answer(w).original_url) # UrlToPath(Answer(w).processed_url)
               /\ fs[UrlToPath(Answer(w).original_url)].content
                     = << "upload", req[w][1].file[1].blob >>
               /\ fs[UrlToPath(Answer(w).processed_url)].content[1] = "PNG"
               /\ req[w][1].instruction = Some(Answer(w).instruction)
            \/ /\ Answer(w).kind # "json_ok"
               /\ Answer(w).status \in { 400, 500 }
               /\ Answer(w).original_url = << >>
               /\ Answer(w).processed_url = << >>

C6_Witness ==
    \E w \in Workers :
        /\ pc[w] = "done"
        /\ Answer(w).kind = "json_ok"
        /\ UrlToPath(Answer(w).original_url) \in DOMAIN fs
        /\ UrlToPath(Answer(w).processed_url) \in DOMAIN fs

----------------------------------------------------------------------------
(* C7 *)

\* C7: every failure after validation is answered by the handler with a JSON
\* error; no exception leaves the handler.
C7_EveryFailureAnsweredAsJson ==
    \A w \in Workers :
        (pc[w] = "done" /\ ~ FailsValidation(req[w][1])) =>
            Answer(w).kind \in { "json_ok", "json_error" }

----------------------------------------------------------------------------
(* C8 *)

RECURSIVE TrimLeft(_)
TrimLeft(s) == IF s # << >> /\ Head(s) = " " THEN TrimLeft(Tail(s)) ELSE s

\* C8: a request whose instruction is empty after trimming is answered with
\* 400 and is neither stored nor sent to the model.
C8_BlankInstructionRejected ==
    \A w \in Workers :
        (Serving(w) /\ TrimLeft(FormInstruction(req[w][1])) = << >>) =>
            /\ pc[w] = "done"
            /\ Answer(w).status = 400
            /\ NoSideEffect(w)

----------------------------------------------------------------------------
(* C9 *)

\* C9: a file of the upload directory is never rewritten or deleted: every
\* step leaves each existing file in place with its content and its single
\* write, so a processed file is never written over a stored original.
C9_FilesWrittenOnce ==
    [][\A q \in DOMAIN fs :
          /\ q \in DOMAIN fs'
          /\ fs'[q] = fs[q]
          /\ fs[q].writes = 1]_vars

C9_Witness ==
    /\ \E q \in DOMAIN fs : fs[q].content[1] = "PNG"
    /\ Cardinality({ q \in DOMAIN fs : fs[q].content[1] = "upload" }) >= 2
    /\ \E w \in Workers : pc[w] = "respond"

----------------------------------------------------------------------------
(* C10 *)

Pipeline ==
    << "validate", "store", "open", "invoke", "parse", "decode", "persist", "respond" >>

\* C10: the stages a request has run are an initial piece of validate, store,
\* open, invoke, parse, decode, persist, respond; the model is invoked at most
\* once and only with the original stored; a processed file is written only
\* with inline data extracted from that invocation's response; a finished
\* request has been answered exactly once and an unfinished one not yet.
C10_LinearPipeline ==
    \A w \in Workers :
        /\ Len(h[w].stages) <= Len(Pipeline)
        /\ h[w].stages = SubSeq(Pipeline, 1, Len(h[w].stages))
        /\ h[w].invoked <= 1
        /\ h[w].invoked = 1 =>
              /\ RanStage(w, "store")
              /\ h[w].written # << >>
              /\ h[w].written[1] = h[w].filepath[1]
              /\ h[w].filepath[1] \in DOMAIN fs
        /\ Len(h[w].written) <= 2
        /\ Len(h[w].written) = 2 =>
              /\ h[w].invoked = 1
              /\ h[w].processed_image_data # None
              /\ h[w].processed_image_data[1] # << >>
              /\ \E i \in 1..Len(h[w].response[1].candidates[1]) :
                    h[w].response[1].candidates[1][i].inline_data
                        = h[w].processed_image_data
        /\ pc[w] = "done" => h[w].responses = 1 /\ h[w].resp # None
        /\ pc[w] # "done" => h[w].responses = 0 /\ h[w].resp = None

C10_Witness ==
    \E w \in Workers :
        /\ pc[w] = "done"
        /\ h[w].stages = Pipeline
        /\ h[w].invoked = 1
        /\ Len(h[w].written) = 2
        /\ h[w].responses = 1

====
